---- MODULE Spec2Model ----
(***************************************************************************)
(* A model of upairag/models/UpaiLLM.py: the UpaiLLM adapter, which stores *)
(* a model identifier, an access token and a parameter dictionary, builds  *)
(* a request payload from them, submits it through litellm's               *)
(* batch_completion and maps the responses or the error into a list of     *)
(* result dictionaries.                                                    *)
(*                                                                         *)
(* Python values are encoded as follows.  A value that may be None is a    *)
(* sequence of length at most one: <<>> is None and <<v>> is the value v.  *)
(* A dict is a function from its keys (strings) to its values.  A float is *)
(* an integer number of tenths (0.0 is 0, 0.9 is 9).                       *)
(***************************************************************************)
EXTENDS Integers, Sequences, FiniteSets, TLC

VARIABLES
    self,        \* the adapter: None before __init__ has returned, else <<object>>
    last,        \* the most recent call on the adapter: arguments and outcome
    firstBuild   \* the first direct construct_request_payload call: input, payload

vars == <<self, last, firstBuild>>

-----------------------------------------------------------------------------
(* Python values *)

None == <<>>
Some(v) == <<v>>

EmptyDict == [k \in {} |-> 0]

\* bool(v) of a str-or-None value: None and "" are falsy
TruthyStr(v) == v # None /\ v[1] # ""

\* bool(v) of a dict-or-None value: None and {} are falsy
TruthyDict(v) == v # None /\ DOMAIN v[1] # {}

\* a or b with the operands taken in the wrong order
OrStrSecondFirst(a, b) == IF TruthyStr(b) THEN b ELSE a

\* a or b
OrStr(a, b) == IF TruthyStr(a) THEN a ELSE b

OrDict(a, b) == IF TruthyDict(a) THEN a ELSE b

\* d.get(k): the value under k, None when the key is absent
Get(d, k) == IF k \in DOMAIN d THEN d[k] ELSE None

\* the dict d after d.update(e): the entries of e replace and extend those of d
Update(d, e) == [k \in DOMAIN d \cup DOMAIN e |-> IF k \in DOMAIN e THEN e[k] ELSE d[k]]

-----------------------------------------------------------------------------
(* Inputs *)

MaxBatch == 2          \* longest list of prompt sequences passed in one call

Message(c) == [role |-> "user", content |-> c]

\* A prompt sequence is a list of messages.  The empty list is a list too.
PromptSequences ==
    { <<>>,
      <<Message("q1")>>,
      <<Message("q2"), Message("q1")>> }

RECURSIVE ListsUpTo(_, _)
ListsUpTo(S, n) ==
    IF n = 0 THEN { <<>> }
    ELSE LET shorter == ListsUpTo(S, n - 1)
         IN  shorter \cup { Append(l, x) : l \in { s \in shorter : Len(s) = n - 1 }, x \in S }

Batches == ListsUpTo(PromptSequences, MaxBatch)

\* construct_request_payload does not look into its argument: direct calls
\* draw it from a few distinguishable lists.
ProbeBatches ==
    { <<>>,
      << <<Message("q1")>> >>,
      << <<Message("q2"), Message("q1")>>, <<Message("q1")>> >> }

OneKey(k, vals) == { EmptyDict } \cup { [x \in {k} |-> v] : v \in vals }

\* the llm_params dictionaries a caller passes: any combination of the keys the
\* code reads ("model", "access_token"), the keys of the base payload and none
AllParams ==
    { Update(Update(Update(a, b), Update(c, d)), e) :
        a \in OneKey("model", { Some(""), Some("m2") }),
        b \in OneKey("access_token", { Some(""), Some("T2") }),
        c \in OneKey("temperature", { 9 }),
        d \in OneKey("api_key", { Some("K") }),
        e \in OneKey("messages", { << <<Message("p")>> >> }) }

StrArgs(s) == { None, Some(""), Some(s) }

\* every argument list of UpaiLLM(...)
AllArgs ==
    [ llm_identifier : StrArgs("m1"),
      access_token   : StrArgs("T1"),
      llm_params     : { None } \cup { Some(d) : d \in AllParams } ]

-----------------------------------------------------------------------------
(* UpaiLLM.__init__ *)

TokenError == "Access token must be provided either directly or in the llm_params."
ModelError == "LLM model identifier must be provided either directly or in the llm_params."

\* the attributes __init__ assigns, in the order it assigns them
Resolve(a) ==
    LET params == OrDict(a.llm_params, Some(EmptyDict))[1]
    IN  [ llm_params     |-> params,
          llm_identifier |-> OrStr(a.llm_identifier, Get(params, "model")),
          access_token   |-> OrStr(a.access_token, Get(params, "access_token")) ]

\* __init__ without its second validation
UpaiLLMInitTokenOnly(a) ==
    LET obj == Resolve(a)
    IN  IF ~TruthyStr(obj.access_token)
          THEN [ raised |-> TRUE, error |-> TokenError, object |-> None ]
          ELSE [ raised |-> FALSE, error |-> "", object |-> Some(obj) ]

\* the outcome of UpaiLLM(**a): the exception raised, or the object returned
UpaiLLMInit(a) ==
    LET obj == Resolve(a)
    IN  IF ~TruthyStr(obj.access_token)
          THEN [ raised |-> TRUE, error |-> TokenError, object |-> None ]
        ELSE IF ~TruthyStr(obj.llm_identifier)
          THEN [ raised |-> TRUE, error |-> ModelError, object |-> None ]
        ELSE [ raised |-> FALSE, error |-> "", object |-> Some(obj) ]

-----------------------------------------------------------------------------
(* UpaiLLM.construct_request_payload *)

\* construct_request_payload with the merge the other way round: the base
\* entries replace those of llm_params
ConstructRequestPayloadBaseWins(obj, prompt_sequences) ==
    LET base == [ model       |-> obj.llm_identifier,
                  messages    |-> prompt_sequences,
                  temperature |-> 0,
                  api_key     |-> obj.access_token ]
    IN  [ ret    |-> Update(obj.llm_params, base),
          object |-> obj ]

\* construct_request_payload that keeps its argument in self.llm_params after
\* it has built the dict
ConstructRequestPayloadKeepsInput(obj, prompt_sequences) ==
    LET base == [ model       |-> obj.llm_identifier,
                  messages    |-> prompt_sequences,
                  temperature |-> 0,
                  api_key     |-> obj.access_token ]
    IN  [ ret    |-> Update(base, obj.llm_params),
          object |-> [ obj EXCEPT !.llm_params =
                         Update(obj.llm_params, [ messages |-> prompt_sequences ]) ] ]

\* the returned dict and the object as the call leaves it
ConstructRequestPayload(obj, prompt_sequences) ==
    LET base == [ model       |-> obj.llm_identifier,
                  messages    |-> prompt_sequences,
                  temperature |-> 0,
                  api_key     |-> obj.access_token ]
    IN  [ ret    |-> IF DOMAIN obj.llm_params # {}
                       THEN Update(base, obj.llm_params)
                       ELSE base,
          object |-> obj ]

-----------------------------------------------------------------------------
(* UpaiLLM.process_batch_prompts *)

\* What batch_completion can do with one request: raise, or return a list of
\* objects.  An object of the list is a completion with choices[0].message.content,
\* or an object without choices (litellm puts the exception of a failed item in
\* the list).  A completion has no usage attribute, or one holding None, or one
\* holding a Usage object.
Usage(n) == [ cls |-> "Usage", total_tokens |-> n ]

Responses ==
    { [ has_choices |-> TRUE,  content |-> "A", has_usage |-> TRUE,  usage |-> Some(Usage(7)) ],
      [ has_choices |-> TRUE,  content |-> "B", has_usage |-> FALSE, usage |-> None ],
      [ has_choices |-> TRUE,  content |-> "B", has_usage |-> TRUE,  usage |-> None ],
      [ has_choices |-> FALSE, content |-> "",  has_usage |-> FALSE, usage |-> None ] }

ExternalErrors == { "rate limited", "timeout" }

Outcomes ==
    { [ raises |-> TRUE, error |-> e, responses |-> <<>> ] : e \in ExternalErrors }
    \cup
    { [ raises |-> FALSE, error |-> "", responses |-> rs ] :
        rs \in ListsUpTo(Responses, MaxBatch + 1) }

NoChoices == "'APIError' object has no attribute 'choices'"
NoToDict == "'NoneType' object has no attribute 'to_dict'"
IndexError == "list index out of range"

Min(a, b) == IF a <= b THEN a ELSE b

\* usage.to_dict(): the fields of the Usage object as a dict
ToDict(u) == [ total_tokens |-> u.total_tokens ]

\* batch_completion called a second time when the first call raises
BatchCompletionRetry(payload, ext) ==
    [ sent      |-> IF ext.raises THEN << payload, payload >> ELSE << payload >>,
      raised    |-> ext.raises,
      error     |-> ext.error,
      responses |-> ext.responses ]

\* the one call of batch_completion(**payload): the request that leaves the
\* adapter, and what comes back
BatchCompletion(payload, ext) ==
    [ sent      |-> << payload >>,
      raised    |-> ext.raises,
      error     |-> ext.error,
      responses |-> ext.responses ]

\* the exception that building the success dict of one (response, messages)
\* pair raises, "" when it raises none; the dict's values are evaluated in the
\* order they are written
ItemError(response, messages) ==
    IF ~response.has_choices THEN NoChoices
    ELSE IF messages = <<>> THEN IndexError
    ELSE IF response.has_usage /\ response.usage = None THEN NoToDict
    ELSE ""

SuccessRecord(response, messages) ==
    [ status         |-> TRUE,
      content        |-> response.content,
      original_query |-> messages[1].content,
      usage          |-> IF response.has_usage
                           THEN Some(ToDict(response.usage[1]))
                           ELSE None ]

FailureRecord(error, messages) ==
    [ status         |-> FALSE,
      error          |-> error,
      original_query |-> messages[1].content ]

\* the except clause: one failure dict for each prompt sequence; messages[0]
\* of an empty prompt sequence raises out of the handler
ExceptClause(error, prompt_sequences) ==
    IF \E i \in 1..Len(prompt_sequences) : prompt_sequences[i] = <<>>
      THEN [ raised |-> TRUE, error |-> IndexError, ret |-> <<>> ]
      ELSE [ raised |-> FALSE, error |-> "",
             ret |-> [ i \in 1..Len(prompt_sequences) |->
                         FailureRecord(error, prompt_sequences[i]) ] ]

\* the whole method: what it returns or raises, the requests it sent, what it
\* printed, and the object as the call leaves it
ProcessBatchPrompts(obj, prompt_sequences, debug_mode, ext) ==
    LET built  == ConstructRequestPayload(obj, prompt_sequences)
        call   == BatchCompletion(built.ret, ext)
        \* zip stops at the shorter of the two lists
        n      == Min(Len(call.responses), Len(prompt_sequences))
        bad    == { i \in 1..n : ItemError(call.responses[i], prompt_sequences[i]) # "" }
        first  == CHOOSE i \in bad : \A j \in bad : i <= j
        result ==
            IF call.raised
              THEN ExceptClause(call.error, prompt_sequences)
            ELSE IF bad # {}
              THEN ExceptClause(ItemError(call.responses[first], prompt_sequences[first]),
                                prompt_sequences)
            ELSE [ raised |-> FALSE, error |-> "",
                   ret |-> [ i \in 1..n |->
                               SuccessRecord(call.responses[i], prompt_sequences[i]) ] ]
    IN  [ raised  |-> result.raised,
          error   |-> result.error,
          ret     |-> result.ret,
          sent    |-> call.sent,
          printed |-> IF debug_mode /\ ~call.raised THEN Some(call.responses) ELSE None,
          object  |-> built.object ]

-----------------------------------------------------------------------------
(* The calls *)

Init ==
    /\ self = None
    /\ last = [ op |-> "none" ]
    /\ firstBuild = None

Construct(Args) ==
    /\ last.op = "none"
    /\ \E a \in Args :
         LET r == UpaiLLMInit(a)
         IN  /\ self' = r.object
             /\ last' = [ op |-> "init", args |-> a, raised |-> r.raised,
                          error |-> r.error, sent |-> <<>> ]
    /\ UNCHANGED firstBuild

Build(Inputs) ==
    /\ self # None
    /\ last.op = "idle"
    /\ \E ps \in Inputs :
         LET r == ConstructRequestPayload(self[1], ps)
         IN  /\ self' = Some(r.object)
             /\ last' = [ op |-> "build", input |-> ps, ret |-> r.ret, sent |-> <<>>,
                          repeat |-> firstBuild # None ]
             /\ firstBuild' = IF firstBuild = None
                                THEN Some([ input |-> ps, ret |-> r.ret, between |-> FALSE ])
                                ELSE firstBuild

Process ==
    /\ self # None
    /\ last.op = "idle"
    /\ \E ps \in Batches, debug_mode \in BOOLEAN, ext \in Outcomes :
         LET r == ProcessBatchPrompts(self[1], ps, debug_mode, ext)
         IN  /\ self' = Some(r.object)
             /\ last' = [ op |-> "process", input |-> ps, outcome |-> ext,
                          raised |-> r.raised, error |-> r.error, ret |-> r.ret,
                          sent |-> r.sent, printed |-> r.printed ]
    /\ firstBuild' = IF firstBuild = None
                       THEN None
                       ELSE Some([ firstBuild[1] EXCEPT !.between = TRUE ])

\* the caller lets go of what the previous call gave it, and is free to call again
Drop ==
    /\ last.op \in { "init", "build", "process" }
    /\ last' = [ op |-> "idle" ]
    /\ UNCHANGED <<self, firstBuild>>

ConstructAny == Construct(AllArgs)

BuildProbe == Build(ProbeBatches)

NextConfig == ConstructAny \/ BuildProbe \/ Drop

SpecConfig == Init /\ [][NextConfig]_vars

\* the adapters the calls are made on: one of each way of supplying the
\* identifier and the token, and one construction that fails
SomeArgs ==
    { [ llm_identifier |-> Some("m1"), access_token |-> Some("T1"), llm_params |-> None ],
      [ llm_identifier |-> None, access_token |-> Some("T1"),
        llm_params |-> Some([ model |-> Some("m2"), temperature |-> 9 ]) ],
      [ llm_identifier |-> Some("m1"), access_token |-> None,
        llm_params |-> Some([ access_token |-> Some("T2"), api_key |-> Some("K"),
                              messages |-> << <<Message("p")>> >> ]) ],
      [ llm_identifier |-> None, access_token |-> None, llm_params |-> None ] }

ConstructSome == Construct(SomeArgs)

Next == ConstructSome \/ BuildProbe \/ Process \/ Drop

Spec == Init /\ [][Next]_vars

-----------------------------------------------------------------------------
(* Properties *)

AfterProcess == last.op = "process"
AfterInit == last.op = "init"
AfterBuild == last.op = "build"

\* the llm_params argument as a dict: None holds no key
ArgParams(a) == IF a.llm_params = None THEN EmptyDict ELSE a.llm_params[1]

\* a non-empty string
NonEmpty(v) == v # None /\ v # Some("")

\* the value is supplied as the explicit argument or under key k of llm_params
Supplied(explicit, params, k) ==
    NonEmpty(explicit) \/ (k \in DOMAIN params /\ NonEmpty(params[k]))

\* C1: process_batch_prompts never raises and returns a list as long as the
\* list of prompt sequences it was given, whatever batch_completion did.
C1_NeverRaisesSameLength ==
    AfterProcess => ~last.raised /\ Len(last.ret) = Len(last.input)

\* C2: when batch_completion raises e, process_batch_prompts returns one
\* failure dict for each prompt sequence, in order, each with error str(e) and
\* with the content of the first message of its prompt sequence.
C2_RaiseGivesFailures ==
    (AfterProcess /\ last.outcome.raises) =>
        /\ ~last.raised
        /\ Len(last.ret) = Len(last.input)
        /\ \A i \in 1..Len(last.input) :
             last.ret[i] = [ status         |-> FALSE,
                             error          |-> last.outcome.error,
                             original_query |-> last.input[i][1].content ]

\* What the except clause does for prompt sequences that all hold a message:
\* one failure dict each, in order, with the error of the request.
FailuresWhenAllHaveMessages ==
    (/\ AfterProcess
     /\ last.outcome.raises
     /\ \A i \in 1..Len(last.input) : last.input[i] # <<>>) =>
        /\ ~last.raised
        /\ last.ret = [ i \in 1..Len(last.input) |->
                          [ status         |-> FALSE,
                            error          |-> last.outcome.error,
                            original_query |-> last.input[i][1].content ] ]

\* batch_completion returned one completion for each prompt sequence, and each
\* prompt sequence has a first message
OnePerInput ==
    /\ AfterProcess
    /\ ~last.outcome.raises
    /\ Len(last.outcome.responses) = Len(last.input)
    /\ \A i \in 1..Len(last.input) :
         /\ last.outcome.responses[i].has_choices
         /\ last.input[i] # <<>>

\* C3: when batch_completion returns one completion for each prompt sequence,
\* process_batch_prompts returns success dicts in that order: the i-th holds
\* the content of the i-th completion's first choice and the content of the
\* first message of the i-th prompt sequence.
C3_ResponsesGiveSuccesses ==
    OnePerInput =>
        /\ ~last.raised
        /\ Len(last.ret) = Len(last.input)
        /\ \A i \in 1..Len(last.input) :
             /\ last.ret[i].status
             /\ last.ret[i].content = last.outcome.responses[i].content
             /\ last.ret[i].original_query = last.input[i][1].content

\* C4: __init__ raises ValueError, and leaves no object, exactly when the
\* token or the identifier is supplied neither as the argument nor in
\* llm_params; otherwise it returns the object.
C4_FailsIffUnresolved ==
    AfterInit =>
        LET a == last.args
            resolved == /\ Supplied(a.access_token, ArgParams(a), "access_token")
                        /\ Supplied(a.llm_identifier, ArgParams(a), "model")
        IN  /\ last.raised <=> ~resolved
            /\ last.raised => self = None /\ last.error \in { TokenError, ModelError }
            /\ ~last.raised => self # None

C4_Witness ==
    /\ AfterInit
    /\ last.raised
    /\ NonEmpty(last.args.access_token)
    /\ last.args.llm_identifier = Some("")
    /\ "model" \in DOMAIN ArgParams(last.args)

\* C5: after __init__ returns, the stored identifier is the explicit argument
\* when one is given and llm_params["model"] otherwise, and the stored token
\* is the explicit argument when one is given and llm_params["access_token"]
\* otherwise.
C5_ExplicitFirst ==
    (AfterInit /\ ~last.raised) =>
        LET a == last.args
        IN  /\ self[1].llm_identifier =
                 IF NonEmpty(a.llm_identifier) THEN a.llm_identifier
                 ELSE ArgParams(a)["model"]
            /\ self[1].access_token =
                 IF NonEmpty(a.access_token) THEN a.access_token
                 ELSE ArgParams(a)["access_token"]

C5_Witness ==
    /\ AfterInit
    /\ ~last.raised
    /\ last.args.access_token = Some("T1")
    /\ Get(ArgParams(last.args), "access_token") = Some("T2")
    /\ last.args.llm_identifier = None

\* C6: construct_request_payload returns a dict that holds every entry of the
\* stored llm_params and, under each of model, messages, temperature and
\* api_key that llm_params does not hold, the stored identifier, the argument,
\* 0.0 and the stored token.
C6_PayloadOverlay ==
    AfterBuild =>
        LET p == last.ret
            params == self[1].llm_params
        IN  /\ DOMAIN p = { "model", "messages", "temperature", "api_key" } \cup DOMAIN params
            /\ \A k \in DOMAIN params : p[k] = params[k]
            /\ "model" \notin DOMAIN params => p["model"] = self[1].llm_identifier
            /\ "messages" \notin DOMAIN params => p["messages"] = last.input
            /\ "temperature" \notin DOMAIN params => p["temperature"] = 0
            /\ "api_key" \notin DOMAIN params => p["api_key"] = self[1].access_token

C6_Witness ==
    /\ AfterBuild
    /\ DOMAIN self[1].llm_params = { "model", "access_token", "temperature" }
    /\ last.input # <<>>

\* C7: once __init__ has returned the object, no call changes its
\* llm_identifier, access_token or llm_params.
C7_ConfigNeverChanges == [][self # None => self' = self]_vars

C7_Witness ==
    /\ AfterProcess
    /\ last.outcome.raises
    /\ firstBuild # None
    /\ DOMAIN self[1].llm_params # {}

\* C8: a call of construct_request_payload returns the dict that the first
\* call with the same argument returned, whatever was called in between.
C8_BuildIdempotent ==
    (AfterBuild /\ firstBuild # None /\ firstBuild[1].input = last.input) =>
        last.ret = firstBuild[1].ret

C8_Witness ==
    /\ AfterBuild
    /\ last.repeat
    /\ firstBuild[1].between
    /\ firstBuild[1].input = last.input
    /\ last.input # <<>>

\* C9: a call of process_batch_prompts sends exactly one request, the dict
\* construct_request_payload builds for its argument, also when the request
\* raises; __init__ and construct_request_payload send none.
C9_OneRequestPerCall ==
    /\ (AfterInit \/ AfterBuild) => last.sent = <<>>
    /\ AfterProcess =>
         last.sent = << ConstructRequestPayload(self[1], last.input).ret >>

C9_Witness ==
    /\ AfterProcess
    /\ last.outcome.raises
    /\ Len(last.input) = 2

\* batch_completion returned, and each pair of a completion and a prompt
\* sequence has a first choice and a first message
PairsWellFormed ==
    /\ AfterProcess
    /\ ~last.outcome.raises
    /\ \A i \in 1..Min(Len(last.outcome.responses), Len(last.input)) :
         /\ last.outcome.responses[i].has_choices
         /\ last.input[i] # <<>>

\* C10: when batch_completion returns, every pair gives a success dict whose
\* usage is the completion's usage as a dict when the completion has usage
\* statistics and None when it has none (no usage attribute, or one holding
\* None).
C10_UsageOrNone ==
    PairsWellFormed =>
        /\ ~last.raised
        /\ \A i \in 1..Len(last.ret) :
             LET r == last.outcome.responses[i]
             IN  /\ last.ret[i].status
                 /\ last.ret[i].usage =
                      IF r.has_usage /\ r.usage # None
                        THEN Some([ total_tokens |-> r.usage[1].total_tokens ])
                        ELSE None

====
